---- MODULE Spec2Model ----
(***************************************************************************)
(* dsrvlabs/wallet-adaptor: AwsMnemonicProvider (Secrets Manager + KMS,    *)
(* with and without the promise cache) and EthWalletAdapter (ethers v6     *)
(* HDNodeWallet), modelled as a state machine of asynchronous calls.       *)
(*                                                                         *)
(* JavaScript strings are sequences of tokens (characters, or whole words  *)
(* for seed phrases); other JavaScript values are tagged records.          *)
(***************************************************************************)
EXTENDS Integers, Sequences, FiniteSets, TLC

\* ------------------------------------------------------------------ bounds
MaxCalls == 2
MaxPromises == 2
MaxIndex == 1

\* ------------------------------------------------------- JavaScript values
Str(s) == [t |-> "string", v |-> s]
Undefined == [t |-> "undefined", v |-> <<>>]
NaN == [t |-> "number", v |-> <<"N", "a", "N">>]
Err(name) == [t |-> "error", v |-> <<name>>]

IsStr(x) == x.t = "string"
IsErr(x) == x.t = "error"

Digit(d) == <<"0", "1", "2", "3", "4", "5", "6", "7", "8", "9">>[d + 1]

\* String(n) for a non-negative integer n, as a template literal renders it
RECURSIVE NumberToString(_)
NumberToString(n) ==
    IF n < 10 THEN <<Digit(n)>>
    ELSE NumberToString(n \div 10) \o <<Digit(n % 10)>>

\* ToString conversion applied by the binary + operator
ToStringJs(x) ==
    CASE x.t = "string" -> x.v
      [] x.t = "undefined" -> <<"u", "n", "d", "e", "f", "i", "n", "e", "d">>
      [] OTHER -> x.v

\* a + b: concatenation as soon as one operand is a string, numeric addition
\* otherwise (undefined converts to NaN)
JsAdd(a, b) ==
    IF IsStr(a) \/ IsStr(b) THEN Str(ToStringJs(a) \o ToStringJs(b))
    ELSE NaN

\* --------------------------------------------------------------- identities
Orgs == {<<"o">>, <<"o", "_">>, <<"o", "_", "1">>}
ChainIds == {1, 11}
MnemonicContext == [organizationId : Orgs, chainId : ChainIds]

\* `${ctx.organizationId}_${ctx.chainId}`
CacheKeyNoSep(ctx) == ctx.organizationId \o NumberToString(ctx.chainId)
CacheKey(ctx) == ctx.organizationId \o <<"_">> \o NumberToString(ctx.chainId)

\* ------------------------------------------------- Secrets Manager payloads
\* The shares are base64 text of a KMS ciphertext, cut in two.
ShareStrings == {<<>>, <<"Q">>, <<"U">>, <<"U", "Q">>}
Phrases == {<<"test", "junk">>, <<"test", "test">>}

\* a parsed JSON object: field name -> JavaScript value (Undefined = absent)
JsonObjects ==
    {[mnemonic |-> Undefined, mnemonic_share_1 |-> Str(a), mnemonic_share_2 |-> Str(b)] :
        a \in ShareStrings, b \in ShareStrings}
    \cup {[mnemonic |-> Undefined, mnemonic_share_1 |-> Str(a), mnemonic_share_2 |-> Undefined] :
        a \in ShareStrings}
    \cup {[mnemonic |-> Undefined, mnemonic_share_1 |-> Undefined, mnemonic_share_2 |-> Str(b)] :
        b \in ShareStrings}
    \cup {[mnemonic |-> Str(<<"test", "junk">>), mnemonic_share_1 |-> Undefined,
           mnemonic_share_2 |-> Undefined]}

NoObject == [mnemonic |-> Undefined, mnemonic_share_1 |-> Undefined, mnemonic_share_2 |-> Undefined]

\* response.SecretString: absent, "", a bare phrase, or the text of a JSON object
SecretStrings ==
    {[enc |-> "missing", phrase |-> <<>>, object |-> NoObject],
     [enc |-> "empty", phrase |-> <<>>, object |-> NoObject],
     [enc |-> "raw", phrase |-> <<"test", "junk">>, object |-> NoObject]}
    \cup {[enc |-> "json", phrase |-> <<>>, object |-> o] : o \in JsonObjects}

NoSecretString == [enc |-> "none", phrase |-> <<>>, object |-> NoObject]

\* !response.SecretString
IsFalsy(ss) == ss.enc \in {"missing", "empty"}

\* JSON.parse(response.SecretString): a bare phrase is not JSON text
JSONparse(ss) ==
    IF ss.enc = "json" THEN [ok |-> TRUE, value |-> ss.object]
    ELSE [ok |-> FALSE, value |-> NoObject]

\* secretsClient.send(command) may also reject (no such secret, throttling, ...)
SendError == [enc |-> "sendError", phrase |-> <<>>, object |-> NoObject]
SecretsManagerResponses == SecretStrings \cup {SendError}

\* getEncryptedMnemonicFromSecretsManager, from the response onwards: the
\* value it returns, or the error it throws
getEncryptedMnemonicNoCheck(response) ==
    IF response.enc = "sendError" THEN Err("SecretsManagerError")
    ELSE IF ~JSONparse(response).ok THEN Err("SyntaxError")
    ELSE JsAdd(JSONparse(response).value.mnemonic_share_1,
               JSONparse(response).value.mnemonic_share_2)
getEncryptedMnemonicSwapped(response) ==
    IF response.enc = "sendError" THEN Err("SecretsManagerError")
    ELSE IF IsFalsy(response) THEN Err("SecretValueIsEmpty")
    ELSE IF ~JSONparse(response).ok THEN Err("SyntaxError")
    ELSE JsAdd(JSONparse(response).value.mnemonic_share_2,
               JSONparse(response).value.mnemonic_share_1)
getEncryptedMnemonicAnyField(response) ==
    IF response.enc = "sendError" THEN Err("SecretsManagerError")
    ELSE IF IsFalsy(response) THEN Err("SecretValueIsEmpty")
    ELSE IF ~JSONparse(response).ok THEN Str(response.phrase)
    ELSE IF JSONparse(response).value.mnemonic # Undefined
         THEN JSONparse(response).value.mnemonic
    ELSE JsAdd(JSONparse(response).value.mnemonic_share_1,
               JSONparse(response).value.mnemonic_share_2)
getEncryptedMnemonicFromSecretsManager(response) ==
    IF response.enc = "sendError" THEN Err("SecretsManagerError")
    ELSE IF IsFalsy(response) THEN Err("SecretValueIsEmpty")
    ELSE IF ~JSONparse(response).ok THEN Err("SyntaxError")
    ELSE JsAdd(JSONparse(response).value.mnemonic_share_1,
               JSONparse(response).value.mnemonic_share_2)

\* --------------------------------------------------------------------- KMS
\* Buffer.from(ciphertext, "base64"): the bytes whose base64 text is given;
\* a non-string argument (NaN) is a TypeError
NoBlob == [base64 |-> <<>>, ok |-> FALSE]
BufferFromBase64(ciphertext) ==
    IF IsStr(ciphertext) THEN [base64 |-> ciphertext.v, ok |-> TRUE] ELSE NoBlob

\* what the key can decrypt: ciphertext -> plaintext phrase
KmsKnown == {<<"Q", "U">>, <<"U", "Q">>}
KmsPlaintext(blob) ==
    IF blob.base64 = <<"Q", "U">> THEN <<"test", "junk">> ELSE <<"test", "test">>

\* kmsClient.send(command): the decrypted bytes read as utf-8, or a rejection
\* (always possible; certain for a ciphertext the key cannot decrypt)
KmsResponses(blob) ==
    {Err("KmsError")}
    \cup (IF blob.base64 \in KmsKnown THEN {Str(KmsPlaintext(blob))} ELSE {})

\* ------------------------------------------------------------ ethers v6
\* path.split("/")
RECURSIVE SplitFrom(_, _, _)
SplitFrom(s, i, cur) ==
    IF i > Len(s) THEN <<cur>>
    ELSE IF s[i] = "/" THEN <<cur>> \o SplitFrom(s, i + 1, <<>>)
    ELSE SplitFrom(s, i + 1, Append(cur, s[i]))
Split(s) == SplitFrom(s, 1, <<>>)

DigitChars == {"0", "1", "2", "3", "4", "5", "6", "7", "8", "9"}
DigitValue(ch) == CHOOSE d \in 0..9 : Digit(d) = ch

AllDigits(s) == Len(s) > 0 /\ \A i \in 1..Len(s) : s[i] \in DigitChars

\* parseInt of a string of decimal digits
RECURSIVE ParseInt(_)
ParseInt(s) ==
    IF Len(s) = 0 THEN 0
    ELSE 10 * ParseInt(SubSeq(s, 1, Len(s) - 1)) + DigitValue(s[Len(s)])

\* component.match(/^[0-9]+'$/), component.match(/^[0-9]+$/)
IsHardened(comp) == Len(comp) > 1 /\ comp[Len(comp)] = "'" /\ AllDigits(SubSeq(comp, 1, Len(comp) - 1))
IsNormal(comp) == AllDigits(comp)

\* one derivation step: the child index and whether it is hardened
Child(comp) ==
    IF IsHardened(comp)
    THEN [index |-> ParseInt(SubSeq(comp, 1, Len(comp) - 1)), hardened |-> TRUE]
    ELSE [index |-> ParseInt(comp), hardened |-> FALSE]

\* ethers' defaultPath m/44'/60'/0'/0/0, as derivation steps from the master key
defaultPath ==
    <<[index |-> 44, hardened |-> TRUE], [index |-> 60, hardened |-> TRUE],
      [index |-> 0, hardened |-> TRUE], [index |-> 0, hardened |-> FALSE],
      [index |-> 0, hardened |-> FALSE]>>

\* phrases that pass the BIP-39 word-list and checksum validation
ValidPhrases == {<<"test", "junk">>}

NoNode == [ok |-> FALSE, phrase |-> <<>>, path |-> <<>>, error |-> Undefined]

\* HDNodeWallet.fromPhrase(mnemonic): the node at defaultPath (depth 5) of
\* the phrase's master key; throws on an invalid phrase
fromPhraseNoValidation(mnemonic) ==
    IF IsStr(mnemonic)
    THEN [ok |-> TRUE, phrase |-> mnemonic.v, path |-> defaultPath, error |-> Undefined]
    ELSE [NoNode EXCEPT !.error = Err("invalid mnemonic")]
fromPhrase(mnemonic) ==
    IF IsStr(mnemonic) /\ mnemonic.v \in ValidPhrases
    THEN [ok |-> TRUE, phrase |-> mnemonic.v, path |-> defaultPath, error |-> Undefined]
    ELSE [NoNode EXCEPT !.error = Err("invalid mnemonic")]

\* node.derivePath(path): a path starting with "m" is accepted on a node of
\* depth 0 only; every other component must be digits, optionally hardened
derivePathSkipsLast(node, path) ==
    LET parts == Split(path)
        rooted == parts[1] = <<"m">>
        all == IF rooted THEN Tail(parts) ELSE parts
        comps == SubSeq(all, 1, Len(all) - 1)
    IN IF rooted /\ Len(node.path) # 0
       THEN [NoNode EXCEPT !.error = Err("cannot derive root path")]
       ELSE IF \E i \in 1..Len(all) : ~IsHardened(all[i]) /\ ~IsNormal(all[i])
       THEN [NoNode EXCEPT !.error = Err("invalid path component")]
       ELSE [node EXCEPT !.path = node.path \o [i \in 1..Len(comps) |-> Child(comps[i])]]
derivePath(node, path) ==
    LET parts == Split(path)
        rooted == parts[1] = <<"m">>
        comps == IF rooted THEN Tail(parts) ELSE parts
    IN IF rooted /\ Len(node.path) # 0
       THEN [NoNode EXCEPT !.error = Err("cannot derive root path")]
       ELSE IF \E i \in 1..Len(comps) : ~IsHardened(comps[i]) /\ ~IsNormal(comps[i])
       THEN [NoNode EXCEPT !.error = Err("invalid path component")]
       ELSE [node EXCEPT !.path = node.path \o [i \in 1..Len(comps) |-> Child(comps[i])]]

\* node.getAddress() and node.publicKey: fixed by the phrase and the
\* absolute path of the node, different for different nodes
getAddress(node) == [t |-> "address", v |-> <<node.phrase, node.path>>]
publicKey(node) == [t |-> "publicKey", v |-> <<node.phrase, node.path>>]

\* ------------------------------------------------------------------- state
VARIABLES
    mnemonicCache,  \* part_001: cache key -> index of the cached promise
    promises,       \* every fetch started by a provider, in order
    calls           \* the callers' calls in progress

vars == <<mnemonicCache, promises, calls>>

Callers == 1..MaxCalls

NoParams == [organizationId |-> <<>>, chainId |-> 0, coinType |-> 0, accountId |-> 0,
             change |-> 0, index |-> 0, mnemonic |-> <<>>, hdpath |-> <<>>]
NoGenerated == [address |-> Undefined, publicKey |-> Undefined, path |-> Undefined]
IdleCall == [pc |-> "idle", op |-> "none", params |-> NoParams, promise |-> 0,
             result |-> Undefined, phrase |-> Undefined, path |-> Undefined,
             generated |-> NoGenerated]

Ctx(params) == [organizationId |-> params.organizationId, chainId |-> params.chainId]

Init ==
    /\ mnemonicCache = <<>>
    /\ promises = <<>>
    /\ calls = [c \in Callers |-> IdleCall]

has(cacheKey) == cacheKey \in DOMAIN mnemonicCache

\* fetchAndDecryptMnemonic(secretName) up to its first suspension: the
\* GetSecretValueCommand for SecretId = secretName is in flight
NewFetch(provider, ctx, secretName) ==
    [provider |-> provider, ctx |-> ctx, SecretId |-> secretName,
     state |-> "reading", SecretString |-> NoSecretString,
     encrypted |-> Undefined, CiphertextBlob |-> NoBlob, settled |-> Undefined]

\* part_001 getMnemonic: return the cached promise, or start the fetch and
\* cache its promise before anything else can run. The state after the
\* call: the promise handed to the caller.
Awaiting(op, params, p) ==
    [IdleCall EXCEPT !.pc = "awaiting", !.op = op, !.params = params, !.promise = p]

getMnemonicNoSet(c, op, params) ==
    /\ calls[c].pc = "idle"
    /\ IF has(CacheKey(Ctx(params)))
       THEN /\ calls' = [calls EXCEPT ![c] =
                   Awaiting(op, params, mnemonicCache[CacheKey(Ctx(params))])]
            /\ UNCHANGED <<mnemonicCache, promises>>
       ELSE /\ Len(promises) < MaxPromises
            /\ promises' = Append(promises,
                   NewFetch("part_001", Ctx(params), CacheKey(Ctx(params))))
            /\ UNCHANGED mnemonicCache
            /\ calls' = [calls EXCEPT ![c] = Awaiting(op, params, Len(promises) + 1)]
getMnemonic(c, op, params) ==
    /\ calls[c].pc = "idle"
    /\ IF has(CacheKey(Ctx(params)))
       THEN /\ calls' = [calls EXCEPT ![c] =
                   Awaiting(op, params, mnemonicCache[CacheKey(Ctx(params))])]
            /\ UNCHANGED <<mnemonicCache, promises>>
       ELSE /\ Len(promises) < MaxPromises
            /\ promises' = Append(promises,
                   NewFetch("part_001", Ctx(params), CacheKey(Ctx(params))))
            /\ mnemonicCache' =
                   (CacheKey(Ctx(params)) :> (Len(promises) + 1)) @@ mnemonicCache
            /\ calls' = [calls EXCEPT ![c] = Awaiting(op, params, Len(promises) + 1)]

\* part_000 getMnemonic: no cache, every call reads and decrypts
getMnemonicUncached(c, op, params) ==
    /\ calls[c].pc = "idle"
    /\ Len(promises) < MaxPromises
    /\ promises' = Append(promises,
           NewFetch("part_000", Ctx(params), CacheKey(Ctx(params))))
    /\ calls' = [calls EXCEPT ![c] = Awaiting(op, params, Len(promises) + 1)]
    /\ UNCHANGED mnemonicCache

\* The Secrets Manager answers fetch p: the rest of
\* getEncryptedMnemonicFromSecretsManager runs, then decryptWithKMS sends
\* the DecryptCommand (or the fetch rejects)
SecretsManagerRespondsNoDecrypt(p, response) ==
    /\ p \in 1..Len(promises)
    /\ promises[p].state = "reading"
    /\ LET enc == getEncryptedMnemonicFromSecretsManager(response)
       IN promises' = [promises EXCEPT ![p] =
            IF IsErr(enc)
            THEN [@ EXCEPT !.state = "rejected", !.SecretString = response,
                           !.settled = enc]
            ELSE [@ EXCEPT !.state = "fulfilled", !.SecretString = response,
                           !.encrypted = enc, !.settled = enc]]
    /\ UNCHANGED <<mnemonicCache, calls>>
SecretsManagerResponds(p, response) ==
    /\ p \in 1..Len(promises)
    /\ promises[p].state = "reading"
    /\ LET enc == getEncryptedMnemonicFromSecretsManager(response)
           blob == BufferFromBase64(enc)
       IN promises' = [promises EXCEPT ![p] =
            IF IsErr(enc)
            THEN [@ EXCEPT !.state = "rejected", !.SecretString = response,
                           !.settled = enc]
            ELSE IF ~blob.ok
            THEN [@ EXCEPT !.state = "rejected", !.SecretString = response,
                           !.encrypted = enc, !.settled = Err("TypeError")]
            ELSE [@ EXCEPT !.state = "decrypting", !.SecretString = response,
                           !.encrypted = enc, !.CiphertextBlob = blob]]
    /\ UNCHANGED <<mnemonicCache, calls>>

\* KMS answers the DecryptCommand of fetch p: the promise settles
KmsRespondsNeedsWaiter(p, plaintext) ==
    /\ p \in 1..Len(promises)
    /\ promises[p].state = "decrypting"
    /\ \E c \in Callers : calls[c].pc = "awaiting" /\ calls[c].promise = p
    /\ plaintext \in KmsResponses(promises[p].CiphertextBlob)
    /\ promises' = [promises EXCEPT ![p] =
            [@ EXCEPT !.state = IF IsErr(plaintext) THEN "rejected" ELSE "fulfilled",
                      !.settled = plaintext]]
    /\ UNCHANGED <<mnemonicCache, calls>>
KmsResponds(p, plaintext) ==
    /\ p \in 1..Len(promises)
    /\ promises[p].state = "decrypting"
    /\ plaintext \in KmsResponses(promises[p].CiphertextBlob)
    /\ promises' = [promises EXCEPT ![p] =
            [@ EXCEPT !.state = IF IsErr(plaintext) THEN "rejected" ELSE "fulfilled",
                      !.settled = plaintext]]
    /\ UNCHANGED <<mnemonicCache, calls>>

Settled(p) == promises[p].state \in {"fulfilled", "rejected"}

\* a getMnemonic caller's await resumes with the settled promise's value or
\* error
getMnemonicResumesDropsError(c) ==
    /\ calls[c].pc = "awaiting"
    /\ calls[c].op = "getMnemonic"
    /\ Settled(calls[c].promise)
    /\ calls' = [calls EXCEPT ![c].pc = "returned",
                              ![c].result = IF promises[calls[c].promise].state = "fulfilled"
                                            THEN promises[calls[c].promise].settled
                                            ELSE Undefined]
    /\ UNCHANGED <<mnemonicCache, promises>>
getMnemonicResumes(c) ==
    /\ calls[c].pc = "awaiting"
    /\ calls[c].op = "getMnemonic"
    /\ Settled(calls[c].promise)
    /\ calls' = [calls EXCEPT ![c].pc = IF promises[calls[c].promise].state = "fulfilled"
                                        THEN "returned" ELSE "threw",
                              ![c].result = promises[calls[c].promise].settled]
    /\ UNCHANGED <<mnemonicCache, promises>>

\* a caller gives up on the promise getMnemonic handed it (it timed out): the
\* promise has no cancel operation, so dropping it touches neither the fetch
\* nor the cache
CallerStopsWaiting(c) ==
    /\ calls[c].pc = "awaiting"
    /\ calls[c].op = "getMnemonic"
    /\ calls' = [calls EXCEPT ![c].pc = "stoppedWaiting"]
    /\ UNCHANGED <<mnemonicCache, promises>>

\* the caller is done with the outcome and may call again
CallerContinues(c) ==
    /\ calls[c].pc \in {"returned", "threw"}
    /\ calls' = [calls EXCEPT ![c] = IdleCall]
    /\ UNCHANGED <<mnemonicCache, promises>>

\* ------------------------------------------------------- EthWalletAdapter
\* `m/44'/${coinType}'/${accountId}'/${change}/${index}`
HdPathUnhardened(coinType, accountId, change, index) ==
    <<"m", "/", "4", "4", "'", "/">> \o NumberToString(coinType) \o <<"/">>
        \o NumberToString(accountId) \o <<"'", "/">> \o NumberToString(change)
        \o <<"/">> \o NumberToString(index)
HdPath(coinType, accountId, change, index) ==
    <<"m", "/", "4", "4", "'", "/">> \o NumberToString(coinType) \o <<"'", "/">>
        \o NumberToString(accountId) \o <<"'", "/">> \o NumberToString(change)
        \o <<"/">> \o NumberToString(index)

\* part_004:15-45 generateAddress(params), first half: it asks the provider
\* for the mnemonic of {organizationId, chainId} and awaits it
generateAddress(c, params) == getMnemonic(c, "generateAddress", params)
generateAddressUncached(c, params) == getMnemonicUncached(c, "generateAddress", params)

\* part_004:15-45 generateAddress, after the await: a rejected getMnemonic
\* is rethrown; otherwise the root is built from the phrase, the path from
\* the structured fields, and the node at that path gives the result
generateAddressResumesGeneric(c) ==
    /\ calls[c].pc = "awaiting"
    /\ calls[c].op = "generateAddress"
    /\ Settled(calls[c].promise)
    /\ LET pr == promises[calls[c].promise]
           mnemonic == pr.settled
           root == fromPhrase(mnemonic)
           path == HdPath(calls[c].params.coinType, calls[c].params.accountId,
                          calls[c].params.change, calls[c].params.index)
           node == derivePath(root, path)
       IN calls' = [calls EXCEPT ![c] =
            IF ~root.ok
            THEN [@ EXCEPT !.pc = "threw", !.phrase = mnemonic, !.result = root.error]
            ELSE IF ~node.ok
            THEN [@ EXCEPT !.pc = "threw", !.phrase = mnemonic, !.path = Str(path),
                           !.result = node.error]
            ELSE [@ EXCEPT !.pc = "returned", !.phrase = mnemonic, !.path = Str(path),
                           !.generated = [address |-> getAddress(node),
                                          publicKey |-> publicKey(node),
                                          path |-> Str(path)]]]
    /\ UNCHANGED <<mnemonicCache, promises>>
generateAddressResumes(c) ==
    /\ calls[c].pc = "awaiting"
    /\ calls[c].op = "generateAddress"
    /\ Settled(calls[c].promise)
    /\ LET pr == promises[calls[c].promise]
           mnemonic == pr.settled
           root == fromPhrase(mnemonic)
           path == HdPath(calls[c].params.coinType, calls[c].params.accountId,
                          calls[c].params.change, calls[c].params.index)
           node == derivePath(root, path)
       IN calls' = [calls EXCEPT ![c] =
            IF pr.state = "rejected"
            THEN [@ EXCEPT !.pc = "threw", !.result = pr.settled]
            ELSE IF ~root.ok
            THEN [@ EXCEPT !.pc = "threw", !.phrase = mnemonic, !.result = root.error]
            ELSE IF ~node.ok
            THEN [@ EXCEPT !.pc = "threw", !.phrase = mnemonic, !.path = Str(path),
                           !.result = node.error]
            ELSE [@ EXCEPT !.pc = "returned", !.phrase = mnemonic, !.path = Str(path),
                           !.generated = [address |-> getAddress(node),
                                          publicKey |-> publicKey(node),
                                          path |-> Str(path)]]]
    /\ UNCHANGED <<mnemonicCache, promises>>

\* hdpath.startsWith("m/") ? hdpath.slice(2) : hdpath
startsWithM(hdpath) == Len(hdpath) >= 2 /\ hdpath[1] = "m" /\ hdpath[2] = "/"
relativePath(hdpath) ==
    IF startsWithM(hdpath) THEN SubSeq(hdpath, 3, Len(hdpath)) ELSE hdpath

\* the rest of a mnemonic-and-hdpath generateAddress once the path handed to
\* derivePath is known
DerivedWithPath(params, path) ==
    LET root == fromPhrase(Str(params.mnemonic))
        node == derivePath(root, path)
    IN IF ~root.ok
       THEN [IdleCall EXCEPT !.pc = "threw", !.params = params,
                             !.phrase = Str(params.mnemonic), !.result = root.error]
       ELSE IF ~node.ok
       THEN [IdleCall EXCEPT !.pc = "threw", !.params = params,
                             !.phrase = Str(params.mnemonic), !.path = Str(path),
                             !.result = node.error]
       ELSE [IdleCall EXCEPT !.pc = "returned", !.params = params,
                             !.phrase = Str(params.mnemonic), !.path = Str(path),
                             !.generated = [address |-> getAddress(node),
                                            publicKey |-> publicKey(node),
                                            path |-> Str(path)]]
Derived(params, path) ==
    LET root == fromPhrase(Str(params.mnemonic))
        node == derivePath(root, path)
    IN IF ~root.ok
       THEN [IdleCall EXCEPT !.pc = "threw", !.params = params,
                             !.phrase = Str(params.mnemonic), !.result = root.error]
       ELSE IF ~node.ok
       THEN [IdleCall EXCEPT !.pc = "threw", !.params = params,
                             !.phrase = Str(params.mnemonic), !.path = Str(path),
                             !.result = node.error]
       ELSE [IdleCall EXCEPT !.pc = "returned", !.params = params,
                             !.phrase = Str(params.mnemonic), !.path = Str(path),
                             !.generated = [address |-> getAddress(node),
                                            publicKey |-> publicKey(node),
                                            path |-> Undefined]]

\* part_004:63-81 generateAddress({mnemonic, hdpath}): hdpath goes to
\* derivePath as given
generateAddressHdpath(c, params) ==
    /\ calls[c].pc = "idle"
    /\ calls' = [calls EXCEPT ![c] =
           [Derived(params, params.hdpath) EXCEPT !.op = "generateAddressHdpath"]]
    /\ UNCHANGED <<mnemonicCache, promises>>

\* dist/eth-wallet.adapter generateAddress({mnemonic, hdpath}): a leading
\* "m/" is removed first
generateAddressDistCachedRoot(c, params) ==
    /\ calls[c].pc = "idle"
    /\ LET seen == {d \in Callers : calls[d].op = "generateAddressDist"}
           used == IF seen = {} THEN params.mnemonic
                   ELSE calls[CHOOSE d \in seen : TRUE].phrase.v
       IN calls' = [calls EXCEPT ![c] =
              [Derived([params EXCEPT !.mnemonic = used], relativePath(params.hdpath))
                   EXCEPT !.op = "generateAddressDist", !.params = params]]
    /\ UNCHANGED <<mnemonicCache, promises>>
generateAddressDist(c, params) ==
    /\ calls[c].pc = "idle"
    /\ calls' = [calls EXCEPT ![c] =
           [Derived(params, relativePath(params.hdpath)) EXCEPT !.op = "generateAddressDist"]]
    /\ UNCHANGED <<mnemonicCache, promises>>

\* readonly supportedCoinTypes: CoinType[] = [60]
supportedCoinTypes == {60}

\* signTransaction(tx) of every adapter variant: the body is the one throw
\* statement, whatever tx holds
signTransactionViaProvider(c, tx) == getMnemonic(c, "signTransaction", tx)
signTransactionChecksCoinType(c, tx) ==
    /\ calls[c].pc = "idle"
    /\ calls' = [calls EXCEPT ![c] =
           [IdleCall EXCEPT !.pc = "threw", !.op = "signTransaction", !.params = tx,
                            !.result = IF tx.coinType \in supportedCoinTypes
                                       THEN Err("NotImplemented")
                                       ELSE Err("UnsupportedCoinType")]]
    /\ UNCHANGED <<mnemonicCache, promises>>
signTransaction(c, tx) ==
    /\ calls[c].pc = "idle"
    /\ calls' = [calls EXCEPT ![c] =
           [IdleCall EXCEPT !.pc = "threw", !.op = "signTransaction", !.params = tx,
                            !.result = Err("NotImplemented")]]
    /\ UNCHANGED <<mnemonicCache, promises>>

\* ------------------------------------------------- WalletAdapterRegistry
\* this.adapters.set(60, new EthWalletAdapter(mnemonicProvider))
adapters == 60 :> "EthWalletAdapter"

\* getAdapter(coinType): the registered adapter, or the thrown
\* `No adapter found for coinType ${coinType}`
NoAdapter == [ok |-> FALSE, adapter |-> "none", error |-> Undefined]
getAdapterDefault(coinType) ==
    [ok |-> TRUE, adapter |-> adapters[60], error |-> Undefined]
getAdapter(coinType) ==
    IF coinType \in DOMAIN adapters
    THEN [ok |-> TRUE, adapter |-> adapters[coinType], error |-> Undefined]
    ELSE [NoAdapter EXCEPT !.error = Err("NoAdapterFound")]

\* createWalletService().generateAddress(params): getAdapter first, then the
\* adapter's generateAddress
serviceGenerateAddress(c, params) ==
    IF getAdapter(params.coinType).ok
    THEN generateAddress(c, params)
    ELSE /\ calls[c].pc = "idle"
         /\ calls' = [calls EXCEPT ![c] =
                [IdleCall EXCEPT !.pc = "threw", !.op = "generateAddress",
                                 !.params = params,
                                 !.result = getAdapter(params.coinType).error]]
         /\ UNCHANGED <<mnemonicCache, promises>>

\* createWalletService().signTransaction(tx): getAdapter first, then the
\* adapter's signTransaction
serviceSignTransaction(c, tx) ==
    IF getAdapter(tx.coinType).ok
    THEN signTransaction(c, tx)
    ELSE /\ calls[c].pc = "idle"
         /\ calls' = [calls EXCEPT ![c] =
                [IdleCall EXCEPT !.pc = "threw", !.op = "signTransaction",
                                 !.params = tx,
                                 !.result = getAdapter(tx.coinType).error]]
         /\ UNCHANGED <<mnemonicCache, promises>>

\* ---------------------------------------------------------- specifications
CtxParams(ctx) ==
    [NoParams EXCEPT !.organizationId = ctx.organizationId, !.chainId = ctx.chainId]

AccountIds == 0..MaxIndex
HdChange == 0..3
Indices == 0..MaxIndex
CoinTypes == {60}

AddressParams ==
    {[organizationId |-> ctx.organizationId, chainId |-> ctx.chainId, coinType |-> ct,
      accountId |-> a, change |-> ch, index |-> i, mnemonic |-> <<>>, hdpath |-> <<>>] :
        ctx \in MnemonicContext, ct \in CoinTypes, a \in AccountIds, ch \in HdChange,
        i \in Indices}

\* the identities and answers used where calls interleave
CoreContexts == {[organizationId |-> <<"o", "_">>, chainId |-> 11],
                 [organizationId |-> <<"o", "_", "1">>, chainId |-> 1]}
CoreParams ==
    {[CtxParams(ctx) EXCEPT !.coinType = 60] : ctx \in CoreContexts}
GoodSecret ==
    [enc |-> "json", phrase |-> <<>>,
     object |-> [mnemonic |-> Undefined, mnemonic_share_1 |-> Str(<<"Q">>),
                 mnemonic_share_2 |-> Str(<<"U">>)]]
CoreResponses == {SendError, GoodSecret}
KmsAnswers == {Err("KmsError")} \cup {Str(ph) : ph \in Phrases}

\* Spec: any number of callers of one cached provider (part_001) and of an
\* adapter built on it
Next ==
    \/ \E c \in Callers, ctx \in CoreContexts : getMnemonic(c, "getMnemonic", CtxParams(ctx))
    \/ \E c \in Callers, params \in CoreParams : generateAddress(c, params)
    \/ \E p \in 1..MaxPromises, r \in CoreResponses : SecretsManagerResponds(p, r)
    \/ \E p \in 1..MaxPromises, r \in KmsAnswers : KmsResponds(p, r)
    \/ \E c \in Callers : getMnemonicResumes(c)
    \/ \E c \in Callers : generateAddressResumes(c)
    \/ \E c \in Callers : CallerContinues(c)

Spec == Init /\ [][Next]_vars

\* FairSpec: the event loop resumes every caller whose promise has settled
FairSpec ==
    Spec /\ \A c \in Callers :
        WF_vars(getMnemonicResumes(c)) /\ WF_vars(generateAddressResumes(c))

\* FetchSpec: one call on a fresh provider (cached or not), with every kind
\* of stored secret and every structured path
FetchNext ==
    \/ \E ctx \in MnemonicContext :
          promises = <<>> /\ getMnemonic(1, "getMnemonic", CtxParams(ctx))
    \/ \E ctx \in MnemonicContext :
          promises = <<>> /\ getMnemonicUncached(1, "getMnemonic", CtxParams(ctx))
    \/ \E params \in AddressParams : promises = <<>> /\ generateAddress(1, params)
    \/ \E params \in AddressParams : promises = <<>> /\ generateAddressUncached(1, params)
    \/ \E r \in SecretsManagerResponses : SecretsManagerResponds(1, r)
    \/ \E r \in KmsAnswers : KmsResponds(1, r)
    \/ getMnemonicResumes(1)
    \/ generateAddressResumes(1)

FetchSpec == Init /\ [][FetchNext]_vars

\* DeriveSpec: a pair of mnemonic-and-hdpath generateAddress calls
HdPaths ==
    {HdPath(60, a, ch, i) : a \in AccountIds, ch \in HdChange, i \in Indices}
    \cup {relativePath(HdPath(60, a, ch, i)) : a \in AccountIds, ch \in HdChange, i \in Indices}
    \cup {<<"m">>, <<"m", "/">>, <<>>, <<"m", "/", "x">>}
HdpathParams ==
    {[NoParams EXCEPT !.mnemonic = ph, !.hdpath = h] : ph \in Phrases, h \in HdPaths}

\* tx.coinType is typed CoinType but arrives unchecked (tx: any): 0 stands
\* for a coin type outside supportedCoinTypes
TxCoinTypes == supportedCoinTypes \cup {0}
UnsignedTxs ==
    {[CtxParams(ctx) EXCEPT !.coinType = ct] : ctx \in CoreContexts, ct \in TxCoinTypes}

DeriveNext ==
    \/ \E c \in 1..2, params \in HdpathParams : generateAddressHdpath(c, params)
    \/ \E c \in 1..2, params \in HdpathParams : generateAddressDist(c, params)
    \/ \E c \in 1..2, tx \in UnsignedTxs : signTransaction(c, tx)
    \/ \E c \in 1..2 : CallerContinues(c)

DeriveSpec == Init /\ [][DeriveNext]_vars

\* PairSpec: one call on a fresh identity-mode adapter (caller 1) beside one
\* call on a mnemonic-and-hdpath adapter (caller 2)
PairParams ==
    {params \in AddressParams : Ctx(params) \in CoreContexts}
PairHdpathParams ==
    {[NoParams EXCEPT !.mnemonic = ph, !.hdpath = HdPath(60, a, ch, i)] :
        ph \in Phrases, a \in AccountIds, ch \in HdChange, i \in Indices}

\* a stored secret whose plaintext is not a valid phrase
OtherSecret ==
    [GoodSecret EXCEPT !.object.mnemonic_share_1 = Str(<<"U">>),
                       !.object.mnemonic_share_2 = Str(<<"Q">>)]
PairResponses == CoreResponses \cup {OtherSecret}

PairNext ==
    \/ \E params \in PairParams : promises = <<>> /\ generateAddress(1, params)
    \/ \E r \in PairResponses : SecretsManagerResponds(1, r)
    \/ \E r \in KmsAnswers : KmsResponds(1, r)
    \/ generateAddressResumes(1)
    \/ \E params \in PairHdpathParams : generateAddressHdpath(2, params)
    \/ \E params \in PairHdpathParams : generateAddressDist(2, params)
    \/ \E c \in 1..2, tx \in UnsignedTxs : signTransaction(c, tx)
    \/ CallerContinues(2)

PairSpec == Init /\ [][PairNext]_vars

\* ServiceSpec: callers of one createWalletService() object
ServiceParams ==
    {[CtxParams(ctx) EXCEPT !.coinType = ct, !.accountId = a] :
        ctx \in CoreContexts, ct \in TxCoinTypes, a \in AccountIds}

ServiceNext ==
    \/ \E c \in Callers, params \in ServiceParams : serviceGenerateAddress(c, params)
    \/ \E c \in Callers, tx \in UnsignedTxs : serviceSignTransaction(c, tx)
    \/ \E p \in 1..MaxPromises, r \in CoreResponses : SecretsManagerResponds(p, r)
    \/ \E p \in 1..MaxPromises, r \in KmsAnswers : KmsResponds(p, r)
    \/ \E c \in Callers : generateAddressResumes(c)
    \/ \E c \in Callers : CallerContinues(c)

ServiceSpec == Init /\ [][ServiceNext]_vars

\* CancelSpec: getMnemonic callers of one cached provider, any of whom may
\* stop waiting
CancelNext ==
    \/ \E c \in Callers, ctx \in CoreContexts : getMnemonic(c, "getMnemonic", CtxParams(ctx))
    \/ \E p \in 1..MaxPromises, r \in CoreResponses : SecretsManagerResponds(p, r)
    \/ \E p \in 1..MaxPromises, r \in KmsAnswers : KmsResponds(p, r)
    \/ \E c \in Callers : getMnemonicResumes(c)
    \/ \E c \in Callers : CallerStopsWaiting(c)
    \/ \E c \in Callers : CallerContinues(c)

CancelSpec == Init /\ [][CancelNext]_vars

\* FairCancelSpec: every request sent to Secrets Manager or KMS is answered
\* (with a response or an error), and the event loop resumes every caller
\* whose promise has settled
FairCancelSpec ==
    /\ CancelSpec
    /\ \A p \in 1..MaxPromises :
          /\ WF_vars(\E r \in CoreResponses : SecretsManagerResponds(p, r))
          /\ WF_vars(\E r \in KmsAnswers : KmsResponds(p, r))
    /\ \A c \in Callers : WF_vars(getMnemonicResumes(c))

\* ------------------------------------------------------------------ claims
Fetches == 1..Len(promises)
Done(c) == calls[c].pc \in {"returned", "threw"}
FetchesFor(ctx) ==
    {p \in Fetches : promises[p].provider = "part_001" /\ promises[p].ctx = ctx}

\* C1: on one cached provider, however many getMnemonic calls are made for
\* one (organizationId, chainId) and however they interleave, exactly one
\* fetch is started for it and all the calls that have resolved got the
\* same outcome.
C1_OneFetchOneValue ==
    /\ \A ctx \in MnemonicContext : Cardinality(FetchesFor(ctx)) <= 1
    /\ \A c \in Callers :
          calls[c].op = "getMnemonic" =>
              /\ Cardinality(FetchesFor(Ctx(calls[c].params))) = 1
              /\ calls[c].promise \in FetchesFor(Ctx(calls[c].params))
    /\ \A c1, c2 \in Callers :
          (/\ calls[c1].op = "getMnemonic" /\ calls[c2].op = "getMnemonic"
           /\ Done(c1) /\ Done(c2)
           /\ Ctx(calls[c1].params) = Ctx(calls[c2].params))
          => (calls[c1].pc = calls[c2].pc /\ calls[c1].result = calls[c2].result)

C1_Witness ==
    /\ calls[1].op = "getMnemonic" /\ calls[2].op = "getMnemonic"
    /\ calls[1].pc = "returned" /\ calls[2].pc = "returned"
    /\ calls[1].params = calls[2].params
    /\ calls[1].result = Str(<<"test", "junk">>)
    /\ Len(promises) = 1

\* C2: when the fetch of an identity fails, every getMnemonic call waiting
\* on it ends by throwing that failure: none receives a value, none waits
\* forever.
WaitsOnRejected(c) ==
    /\ calls[c].op = "getMnemonic" /\ calls[c].pc = "awaiting"
    /\ promises[calls[c].promise].state = "rejected"
ObservedFailure(c) ==
    /\ calls[c].op = "getMnemonic" /\ calls[c].pc = "threw"
    /\ IsErr(calls[c].result)
    /\ calls[c].result = promises[calls[c].promise].settled
NoValueFromRejected ==
    \A c \in Callers :
        (calls[c].op = "getMnemonic" /\ Done(c)
         /\ promises[calls[c].promise].state = "rejected") => ObservedFailure(c)
C2_FailureReachesWaiters ==
    /\ []NoValueFromRejected
    /\ \A c \in Callers : WaitsOnRejected(c) ~> ObservedFailure(c)

C2_Witness ==
    /\ ObservedFailure(1) /\ ObservedFailure(2)
    /\ calls[1].promise = calls[2].promise

\* C3: after getMnemonic for an identity has failed, a later getMnemonic
\* call for the same identity starts a new fetch.
C3_RetryAfterFailure ==
    [][\A c \in Callers :
          (/\ calls[c].pc = "idle"
           /\ calls'[c].pc = "awaiting"
           /\ calls'[c].op = "getMnemonic"
           /\ \E p \in Fetches :
                 /\ promises[p].ctx = Ctx(calls'[c].params)
                 /\ promises[p].state = "rejected")
          => Len(promises') = Len(promises) + 1]_vars

\* C4: a secret store answering with an empty or missing SecretString makes
\* getMnemonic fail with the "Secret value is empty" error, and a
\* generateAddress through that provider fails with it too, without ever
\* building a root key or an address.
EmptyAnswer(p) == promises[p].SecretString.enc \in {"missing", "empty"}
C4_EmptySecretFails ==
    \A p \in Fetches :
        EmptyAnswer(p) =>
            /\ promises[p].state = "rejected"
            /\ promises[p].settled = Err("SecretValueIsEmpty")
            /\ promises[p].CiphertextBlob = NoBlob
            /\ \A c \in Callers :
                  (calls[c].promise = p /\ Done(c)) =>
                      /\ calls[c].pc = "threw"
                      /\ calls[c].result = Err("SecretValueIsEmpty")
                      /\ calls[c].phrase = Undefined
                      /\ calls[c].generated = NoGenerated

C4_Witness ==
    /\ calls[1].op = "generateAddress" /\ calls[1].pc = "threw"
    /\ promises[calls[1].promise].SecretString.enc = "missing"
    /\ calls[1].result = Err("SecretValueIsEmpty")

\* C5 (as claimed): a secret stored as a raw phrase, as a JSON object with a
\* single mnemonic field, or as a JSON object with share fields is accepted:
\* unless KMS itself fails, getMnemonic returns a phrase.
HasShare1(p) == IsStr(promises[p].SecretString.object.mnemonic_share_1)
HasShare2(p) == IsStr(promises[p].SecretString.object.mnemonic_share_2)
RawEncoding(p) == promises[p].SecretString.enc = "raw"
MnemonicFieldEncoding(p) ==
    /\ promises[p].SecretString.enc = "json"
    /\ IsStr(promises[p].SecretString.object.mnemonic)
    /\ ~HasShare1(p) /\ ~HasShare2(p)
SharesEncoding(p) ==
    promises[p].SecretString.enc = "json" /\ HasShare1(p) /\ HasShare2(p)
Malformed(p) ==
    \/ promises[p].SecretString.enc = "raw"
    \/ promises[p].SecretString.enc = "json" /\ (~HasShare1(p) \/ ~HasShare2(p))
C6_MalformedNeverDecrypted ==
    \A p \in Fetches :
        Malformed(p) =>
            /\ promises[p].state = "rejected"
            /\ promises[p].CiphertextBlob = NoBlob

\* C7: with mnemonic_share_1 and mnemonic_share_2 both stored as strings,
\* the reconstructed secret is share 1 followed by share 2: same length as
\* the two together, share 1 first, share 2 right after it.
C7_SharesConcatenated ==
    \A p \in Fetches :
        (SharesEncoding(p) /\ promises[p].state # "reading") =>
            LET s1 == promises[p].SecretString.object.mnemonic_share_1.v
                s2 == promises[p].SecretString.object.mnemonic_share_2.v
                e == promises[p].encrypted
            IN /\ IsStr(e)
               /\ Len(e.v) = Len(s1) + Len(s2)
               /\ \A i \in 1..Len(s1) : e.v[i] = s1[i]
               /\ \A j \in 1..Len(s2) : e.v[Len(s1) + j] = s2[j]
               /\ promises[p].CiphertextBlob.base64 = e.v

C7_Witness ==
    /\ Len(promises) = 1
    /\ promises[1].SecretString.object.mnemonic_share_1 = Str(<<"U", "Q">>)
    /\ promises[1].SecretString.object.mnemonic_share_2 = Str(<<"Q">>)
    /\ promises[1].encrypted = Str(<<"U", "Q", "Q">>)

\* C8: the SecretId requested for a getMnemonic call is the organizationId,
\* one underscore, then the chainId in decimal; the fetch a call waits on is
\* the one requested under that name.
IsSecretNameOf(id, ctx) ==
    LET n == Len(ctx.organizationId)
        tail == SubSeq(id, n + 2, Len(id))
    IN /\ Len(id) >= n + 2
       /\ SubSeq(id, 1, n) = ctx.organizationId
       /\ id[n + 1] = "_"
       /\ AllDigits(tail)
       /\ (Len(tail) > 1 => tail[1] # "0")
       /\ ParseInt(tail) = ctx.chainId
C8_SecretName ==
    /\ \A p \in Fetches : IsSecretNameOf(promises[p].SecretId, promises[p].ctx)
    /\ \A c \in Callers :
          calls[c].op \in {"getMnemonic", "generateAddress"} =>
              /\ calls[c].promise \in Fetches
              /\ promises[calls[c].promise].ctx = Ctx(calls[c].params)
              /\ IsSecretNameOf(promises[calls[c].promise].SecretId, Ctx(calls[c].params))

C8_Witness ==
    /\ Len(promises) = 1
    /\ promises[1].provider = "part_000"
    /\ promises[1].ctx = [organizationId |-> <<"o", "_", "1">>, chainId |-> 11]
    /\ promises[1].SecretId = <<"o", "_", "1", "_", "1", "1">>

\* C9: the path generateAddress builds from structured fields, hands to
\* derivePath and returns is m/44'/{coinType}'/{accountId}'/{change}/{index}:
\* six segments, the first three numbers hardened, change and index not,
\* every number in plain decimal.
Canonical(comp, n, hardened) ==
    /\ IF hardened THEN IsHardened(comp) ELSE IsNormal(comp)
    /\ Child(comp) = [index |-> n, hardened |-> hardened]
    /\ LET digits == IF hardened THEN SubSeq(comp, 1, Len(comp) - 1) ELSE comp
       IN Len(digits) > 1 => digits[1] # "0"
SameDerivation(c1, c2) ==
    /\ calls[c1].pc = calls[c2].pc
    /\ calls[c1].generated.address = calls[c2].generated.address
    /\ calls[c1].generated.publicKey = calls[c2].generated.publicKey
C10_LeadingMStripped ==
    \A c1, c2 \in Callers :
        (/\ calls[c1].op \in {"generateAddressHdpath", "generateAddressDist"}
         /\ calls[c1].op = calls[c2].op
         /\ calls[c1].params.mnemonic = calls[c2].params.mnemonic
         /\ calls[c1].params.hdpath = <<"m", "/">> \o calls[c2].params.hdpath)
        => SameDerivation(c1, c2)

\* the dist build alone does strip the prefix
DistStripsLeadingM ==
    \A c1, c2 \in Callers :
        (/\ calls[c1].op = "generateAddressDist" /\ calls[c2].op = "generateAddressDist"
         /\ calls[c1].params.mnemonic = calls[c2].params.mnemonic
         /\ calls[c1].params.hdpath = <<"m", "/">> \o calls[c2].params.hdpath)
        => SameDerivation(c1, c2)

\* C11: a mnemonic-and-hdpath generateAddress depends on its arguments
\* only: two calls with the same mnemonic and the same hdpath, whatever
\* generateAddress and signTransaction calls came before either of them,
\* end the same way, with the same address and the same public key.
DirectOps == {"generateAddressHdpath", "generateAddressDist"}
C11_Deterministic ==
    \A c1, c2 \in Callers :
        (/\ calls[c1].op \in DirectOps /\ calls[c1].op = calls[c2].op
         /\ calls[c1].params.mnemonic = calls[c2].params.mnemonic
         /\ calls[c1].params.hdpath = calls[c2].params.hdpath)
        => /\ SameDerivation(c1, c2)
           /\ calls[c1].result = calls[c2].result
           /\ calls[c1].generated.address =
                  getAddress(derivePath(fromPhrase(Str(calls[c1].params.mnemonic)),
                                        calls[c1].path.v))
              \/ calls[c1].pc = "threw"

C11_Witness ==
    /\ calls[1].op = "generateAddressDist" /\ calls[2].op = "generateAddressDist"
    /\ calls[1].pc = "returned" /\ calls[2].pc = "returned"
    /\ calls[1].params.mnemonic = <<"test", "junk">>
    /\ calls[1].params = calls[2].params
    /\ calls[1].generated.address = calls[2].generated.address
    /\ calls[1].generated.address # Undefined

\* C12: for one mnemonic, the dist adapter returns an address for every
\* path 44'/60'/{accountId}'/{change}/{index} (written with or without
\* m/), and two such paths that differ in accountId, change or index give
\* different addresses - in either mnemonic-and-hdpath adapter, whenever
\* both calls return.
Fields == AccountIds \X HdChange \X Indices
Names(hdpath, f) ==
    hdpath \in {HdPath(60, f[1], f[2], f[3]), relativePath(HdPath(60, f[1], f[2], f[3]))}
C12_PathSensitive ==
    \A c1, c2 \in Callers :
        (/\ calls[c1].op \in DirectOps /\ calls[c1].op = calls[c2].op
         /\ calls[c1].params.mnemonic = calls[c2].params.mnemonic
         /\ calls[c1].params.mnemonic \in ValidPhrases
         /\ calls[c1].params.hdpath # calls[c2].params.hdpath)
        => \A f1 \in Fields :
              Names(calls[c1].params.hdpath, f1) =>
                 \A f2 \in Fields \ {f1} :
                    Names(calls[c2].params.hdpath, f2) =>
                       /\ calls[c1].op = "generateAddressDist" =>
                              (calls[c1].pc = "returned" /\ calls[c2].pc = "returned")
                       /\ (calls[c1].pc = "returned" /\ calls[c2].pc = "returned") =>
                              /\ calls[c1].generated.address # Undefined
                              /\ calls[c1].generated.address # calls[c2].generated.address

C12_Witness ==
    /\ calls[1].op = "generateAddressDist" /\ calls[2].op = "generateAddressDist"
    /\ calls[1].pc = "returned" /\ calls[2].pc = "returned"
    /\ calls[1].params.mnemonic = <<"test", "junk">>
    /\ calls[2].params.mnemonic = <<"test", "junk">>
    /\ calls[1].params.hdpath = HdPath(60, 0, 0, 0)
    /\ calls[2].params.hdpath = HdPath(60, 0, 0, 1)
    /\ calls[1].generated.address # calls[2].generated.address

\* C13: for one mnemonic, generateAddress from the structured fields
\* (coin type 60) on the identity-mode adapter and generateAddress from the
\* string m/44'/60'/{accountId}'/{change}/{index} on a mnemonic-and-hdpath
\* adapter both return, and return the same address.
SameKeyNamed(c1, c2) ==
    /\ calls[c1].op = "generateAddress" /\ Done(c1)
    /\ calls[c1].phrase # Undefined
    /\ calls[c1].phrase.v \in ValidPhrases
    /\ calls[c1].params.coinType = 60
    /\ calls[c2].op \in DirectOps /\ Done(c2)
    /\ calls[c2].params.mnemonic = calls[c1].phrase.v
    /\ calls[c2].params.hdpath = HdPath(60, calls[c1].params.accountId,
                                        calls[c1].params.change, calls[c1].params.index)
C13_TwoWaysAgree ==
    \A c1, c2 \in Callers :
        SameKeyNamed(c1, c2) =>
            /\ calls[c1].pc = "returned" /\ calls[c2].pc = "returned"
            /\ calls[c1].generated.address = calls[c2].generated.address

\* C14 (as claimed): every generateAddress call that returns, in either
\* mode, returns address, publicKey and path, path being the path handed to
\* derivePath.
Returned(c) ==
    calls[c].op \in DirectOps \cup {"generateAddress"} /\ calls[c].pc = "returned"
InvalidSeedCall(c) ==
    \/ calls[c].op \in DirectOps /\ calls[c].params.mnemonic \notin ValidPhrases
    \/ /\ calls[c].op = "generateAddress" /\ Done(c)
       /\ promises[calls[c].promise].state = "fulfilled"
       /\ promises[calls[c].promise].settled.v \notin ValidPhrases
C15_InvalidSeedFails ==
    \A c \in Callers :
        InvalidSeedCall(c) =>
            /\ calls[c].pc = "threw"
            /\ IsErr(calls[c].result)
            /\ calls[c].path = Undefined
            /\ calls[c].generated = NoGenerated

C15_Witness ==
    /\ InvalidSeedCall(1) /\ calls[1].pc = "threw"
    /\ InvalidSeedCall(2) /\ calls[2].pc = "threw"
    /\ calls[2].op = "generateAddressHdpath"
    /\ calls[2].params.hdpath = HdPath(60, 0, 0, 0)

\* C16: every signTransaction call, whatever tx holds, ends by throwing the
\* not-implemented error: it returns nothing, asks the provider for nothing
\* (no fetch is started, no promise awaited, the cache is untouched) and
\* derives nothing.
SignThrew(c) ==
    /\ calls[c].pc = "threw"
    /\ calls[c].result = Err("NotImplemented")
    /\ calls[c].promise = 0
    /\ calls[c].phrase = Undefined /\ calls[c].path = Undefined
    /\ calls[c].generated = NoGenerated
C16_SignNotImplemented ==
    /\ [](\A c \in Callers : calls[c].op = "signTransaction" => SignThrew(c))
    /\ [][\A c \in Callers :
            (calls[c].op # "signTransaction" /\ calls'[c].op = "signTransaction")
            => (promises' = promises /\ mnemonicCache' = mnemonicCache)]_vars

C16_Witness ==
    /\ calls[1].op = "signTransaction" /\ SignThrew(1)
    /\ calls[1].params.coinType = 60
    /\ calls[2].op = "signTransaction" /\ SignThrew(2)
    /\ promises = <<>>

\* C17 (as claimed): a signTransaction whose tx.coinType is not in
\* supportedCoinTypes throws UnsupportedCoinType, not the not-implemented
\* error.
Unsupported(c) ==
    calls[c].op = "signTransaction" /\ calls[c].params.coinType \notin supportedCoinTypes
C17_UnsupportedCoinType ==
    \A c \in Callers :
        Unsupported(c) =>
            /\ calls[c].pc = "threw"
            /\ calls[c].result = Err("UnsupportedCoinType")

\* C17 (amended): signTransaction never looks at tx.coinType: a tx with a
\* coin type outside supportedCoinTypes throws the same not-implemented
\* error as a tx with coin type 60, and no UnsupportedCoinType error exists.
C17_CoinTypeNotConsulted ==
    \A c \in Callers :
        /\ Unsupported(c) =>
              (calls[c].pc = "threw" /\ calls[c].result # Err("UnsupportedCoinType"))
        /\ \A d \in Callers :
              (calls[c].op = "signTransaction" /\ calls[d].op = "signTransaction") =>
                  (calls[c].pc = calls[d].pc /\ calls[c].result = calls[d].result)

C17_Witness ==
    /\ Unsupported(1) /\ calls[1].pc = "threw"
    /\ calls[2].op = "signTransaction" /\ calls[2].params.coinType \in supportedCoinTypes
    /\ calls[1].result = calls[2].result

\* C18: on one cached provider two calls wait on the same fetch exactly
\* when their organizationId and chainId are both equal, whatever
\* underscores and digits the organizationId holds; a call waits on the
\* fetch of its own identity only, takes its outcome from it, and can
\* resume as soon as that fetch has settled, whatever state the fetches of
\* other identities are in.
ProviderCall(c) == calls[c].op \in {"getMnemonic", "generateAddress"}
C18_KeyPerIdentity ==
    /\ \A c1, c2 \in Callers :
          (ProviderCall(c1) /\ ProviderCall(c2)) =>
              (calls[c1].promise = calls[c2].promise
                  <=> Ctx(calls[c1].params) = Ctx(calls[c2].params))
    /\ \A x, y \in MnemonicContext : CacheKey(x) = CacheKey(y) => x = y
    /\ \A c \in Callers :
          ProviderCall(c) =>
              /\ calls[c].promise \in Fetches
              /\ promises[calls[c].promise].ctx = Ctx(calls[c].params)
              /\ (calls[c].op = "getMnemonic" /\ Done(c)) =>
                    calls[c].result = promises[calls[c].promise].settled
              /\ (calls[c].op = "getMnemonic" /\ calls[c].pc = "awaiting"
                  /\ Settled(calls[c].promise)) => ENABLED getMnemonicResumes(c)

C18_Witness ==
    /\ calls[1].op = "getMnemonic" /\ calls[2].op = "getMnemonic"
    /\ calls[1].params.organizationId = <<"o", "_">> /\ calls[1].params.chainId = 11
    /\ calls[2].params.organizationId = <<"o", "_", "1">> /\ calls[2].params.chainId = 1
    /\ calls[1].pc = "threw" /\ promises[calls[1].promise].state = "rejected"
    /\ calls[2].pc = "returned" /\ calls[2].result = Str(<<"test", "junk">>)

\* C19: a fetch reads the secret first and decrypts second: the
\* DecryptCommand is sent once, only after the read has returned the two
\* shares and for their concatenation; a fetch that fulfils does so after
\* that decryption, with the plaintext KMS returned and not with the stored
\* ciphertext.
ReadDone(p) ==
    /\ promises[p].SecretString.enc = "json"
    /\ promises[p].encrypted =
           JsAdd(promises[p].SecretString.object.mnemonic_share_1,
                 promises[p].SecretString.object.mnemonic_share_2)
    /\ IsStr(promises[p].encrypted)
    /\ promises[p].CiphertextBlob = [base64 |-> promises[p].encrypted.v, ok |-> TRUE]
FetchOrder(p) ==
    /\ promises[p].state = "reading" =>
          (promises[p].SecretString = NoSecretString /\ promises[p].CiphertextBlob = NoBlob)
    /\ promises[p].CiphertextBlob # NoBlob => ReadDone(p)
    /\ promises[p].state \in {"decrypting", "fulfilled"} => ReadDone(p)
    /\ promises[p].state = "fulfilled" =>
          /\ promises[p].settled = Str(KmsPlaintext(promises[p].CiphertextBlob))
          /\ promises[p].settled # promises[p].encrypted
          /\ \A c \in Callers :
                (calls[c].op = "getMnemonic" /\ calls[c].promise = p /\ Done(c)) =>
                    (calls[c].pc = "returned" /\ calls[c].result = promises[p].settled)
FetchStep(p) ==
    /\ promises'[p].state # promises[p].state =>
          \/ promises[p].state = "reading"
               /\ promises'[p].state \in {"decrypting", "rejected"}
          \/ promises[p].state = "decrypting"
               /\ promises'[p].state \in {"fulfilled", "rejected"}
    /\ promises[p].state # "reading" =>
          promises'[p].CiphertextBlob = promises[p].CiphertextBlob
C19_ReadThenDecrypt ==
    /\ [](\A p \in Fetches : FetchOrder(p))
    /\ [][\A p \in Fetches : FetchStep(p)]_vars

C19_Witness ==
    /\ Len(promises) = 1 /\ promises[1].provider = "part_000"
    /\ promises[1].state = "fulfilled"
    /\ promises[1].CiphertextBlob.base64 = <<"Q", "U">>
    /\ calls[1].op = "getMnemonic" /\ calls[1].pc = "returned"
    /\ calls[1].result = Str(<<"test", "junk">>)

\* C20: a generateAddress whose getMnemonic was rejected throws the very
\* error of that rejection, having built no root key, no path and no
\* address.
C20_ProviderErrorPropagates ==
    \A c \in Callers :
        (/\ calls[c].op = "generateAddress" /\ Done(c)
         /\ promises[calls[c].promise].state = "rejected")
        => /\ calls[c].pc = "threw"
           /\ IsErr(calls[c].result)
           /\ calls[c].result = promises[calls[c].promise].settled
           /\ calls[c].phrase = Undefined /\ calls[c].path = Undefined
           /\ calls[c].generated = NoGenerated

C20_Witness ==
    /\ calls[1].op = "generateAddress" /\ calls[1].pc = "threw"
    /\ promises[calls[1].promise].state = "rejected"
    /\ promises[calls[1].promise].CiphertextBlob # NoBlob
    /\ calls[1].result = Err("KmsError")

\* C21: when a getMnemonic caller stops waiting, the fetch it was waiting on
\* and its cache entry are left as they are; the fetch still settles; a
\* later call for that identity joins the same fetch (no second one is
\* started) and, unless it stops waiting too, ends with that fetch's outcome.
StoppedWaiting(c) == calls[c].pc = "stoppedWaiting"
EntryKept(c) ==
    /\ has(CacheKey(Ctx(calls[c].params)))
    /\ mnemonicCache[CacheKey(Ctx(calls[c].params))] = calls[c].promise
    /\ Cardinality(FetchesFor(Ctx(calls[c].params))) = 1
JoinedAfterStop(c, d) ==
    /\ StoppedWaiting(d)
    /\ calls[c].op = "getMnemonic" /\ calls[c].pc = "awaiting"
    /\ Ctx(calls[c].params) = Ctx(calls[d].params)
GotOutcome(c) ==
    /\ Done(c)
    /\ Settled(calls[c].promise)
    /\ calls[c].result = promises[calls[c].promise].settled
    /\ calls[c].pc = "returned" <=> promises[calls[c].promise].state = "fulfilled"
C21_FetchOutlivesCaller ==
    /\ [][\A c \in Callers :
            (~StoppedWaiting(c) /\ calls'[c].pc = "stoppedWaiting")
            => /\ mnemonicCache' = mnemonicCache
               /\ promises' = promises]_vars
    /\ [](\A c \in Callers : StoppedWaiting(c) => EntryKept(c))
    /\ [](\A c, d \in Callers :
             JoinedAfterStop(c, d) => calls[c].promise = calls[d].promise)
    /\ \A c \in Callers :
          StoppedWaiting(c) ~> (StoppedWaiting(c) /\ Settled(calls[c].promise))
    /\ \A c, d \in Callers :
          JoinedAfterStop(c, d) ~> (GotOutcome(c) \/ StoppedWaiting(c))

C21_Witness ==
    /\ StoppedWaiting(1)
    /\ calls[2].op = "getMnemonic" /\ calls[2].pc = "returned"
    /\ calls[2].promise = calls[1].promise
    /\ calls[2].result = Str(<<"test", "junk">>)
    /\ Len(promises) = 1

\* C22: through createWalletService a request whose coin type has a
\* registered adapter is handled by that adapter (generateAddress asks the
\* provider, signTransaction throws the adapter's error); a request with any
\* other coin type throws the no-adapter error at once: no fetch is started
\* or joined, the cache is untouched, nothing is derived.
Registered(c) == calls[c].params.coinType \in DOMAIN adapters
ServiceCall(c) == calls[c].op \in {"generateAddress", "signTransaction"}
C22_RegistryRoutes ==
    /\ [](\A c \in Callers :
             (ServiceCall(c) /\ ~Registered(c)) =>
                 /\ calls[c].pc = "threw"
                 /\ calls[c].result = Err("NoAdapterFound")
                 /\ calls[c].promise = 0
                 /\ calls[c].phrase = Undefined /\ calls[c].path = Undefined
                 /\ calls[c].generated = NoGenerated)
    /\ [](\A c \in Callers :
             (ServiceCall(c) /\ Registered(c)) =>
                 /\ calls[c].result # Err("NoAdapterFound")
                 /\ calls[c].op = "generateAddress" =>
                       (/\ calls[c].promise \in Fetches
                        /\ promises[calls[c].promise].ctx = Ctx(calls[c].params))
                 /\ calls[c].op = "signTransaction" => SignThrew(c))
    /\ [][\A c \in Callers :
            (calls[c].pc = "idle" /\ ServiceCall(c)' /\ ~Registered(c)')
            => (promises' = promises /\ mnemonicCache' = mnemonicCache)]_vars

C22_Witness ==
    /\ calls[1].op = "generateAddress" /\ ~Registered(1)
    /\ calls[1].result = Err("NoAdapterFound")
    /\ calls[2].op = "generateAddress" /\ Registered(2)
    /\ Ctx(calls[1].params) = Ctx(calls[2].params)
    /\ calls[2].pc = "awaiting" /\ Len(promises) = 1

TypeOK ==
    /\ Len(promises) <= MaxPromises
    /\ \A k \in DOMAIN mnemonicCache : mnemonicCache[k] \in 1..Len(promises)

====
